---------------------------- MODULE Spec2Model ----------------------------
(***************************************************************************)
(* A model of tools/parse_opb82_scheme.py: the OPB-82 scheme parser.       *)
(*                                                                         *)
(* Three state machines share the definitions below:                       *)
(*   FillSpec  find_connected_components, one step per loop iteration      *)
(*             (the raster scan and the flood fill's while loop);          *)
(*   NormSpec  normalize_coordinates applied to a cell collection, and     *)
(*             applied again to its own result;                            *)
(*   Spec      parse_scheme from Image.open to the return, one step per    *)
(*             class of the detection loop and one per file operation.     *)
(* FairFillSpec is FillSpec with the progress a sequential program makes.  *)
(***************************************************************************)
EXTENDS Integers, Sequences, FiniteSets

VARIABLES
    pc,                 \* the position of the running function
    img,                \* pixels = img.load(): (x, y) -> RGB triple
    width,              \* img.size[0]
    height,             \* img.size[1]
    target_color,       \* find_connected_components' target_color
    visited,            \* the visited set of find_connected_components
    components,         \* the components list of find_connected_components
    queue,              \* flood_fill's deque
    component_pixels,   \* flood_fill's component_pixels list
    scan,               \* raster position of the scan: y * width + x
    reads,              \* history: every coordinate looked up in pixels
    enqueued,           \* history: appends to queue in the current fill
    cell_size,          \* parse_scheme's cell_size (the pitch)
    min_area,           \* parse_scheme's min_area
    class_i,            \* classes of COLORS the detection loop has finished
    cells,              \* the raw cells dict built by the detection loop
    normalized_cells,   \* the dict normalize_coordinates returns
    renormalized_cells, \* normalize_coordinates applied to its own result
    total,              \* metadata.total_cells
    grid_width,         \* metadata.grid_size.width
    grid_height,        \* metadata.grid_size.height
    positions_by_type,  \* output['positions_by_type']
    ts_output,          \* the text generate_typescript returns
    json_file,          \* the structured data file at output_path
    ts_file,            \* the code listing at ts_path
    error               \* the exception that ended the run, or "none"

imgVars  == <<img, width, height>>
fillVars == <<target_color, visited, components, queue, component_pixels,
              scan, reads, enqueued>>
normVars == <<cells, normalized_cells, renormalized_cells>>
pipeVars == <<cell_size, min_area, class_i, total, grid_width, grid_height,
              positions_by_type, ts_output, json_file, ts_file, error>>
vars     == <<pc, imgVars, fillVars, normVars, pipeVars>>

(***************************************************************************)
(* Bounds of the model.                                                    *)
(***************************************************************************)
\* FillSpec: images of at most this many pixels (every width x height).
MaxFillPixels == 9
\* Spec: images of at most this many pixels.
MaxPixels == 4
\* Spec: cell_size and min_area are drawn from 1..MaxParam.
MaxParam == 2
\* NormSpec: at most this many cells in a collection.
MaxCells == 3
\* NormSpec: raw grid_x in 0..MaxGridX, raw grid_y in 0..MaxGridY.
MaxGridX == 3
MaxGridY == 1

(***************************************************************************)
(* Color definitions (lines 31-42).                                        *)
(***************************************************************************)
CellTypes == <<"AZ", "TK", "RR", "AR", "LAR", "USP">>

COLORS == [AZ  |-> <<222, 26, 3>>,
           TK  |-> <<165, 181, 164>>,
           RR  |-> <<235, 235, 235>>,
           AR  |-> <<1, 177, 145>>,
           LAR |-> <<0, 103, 206>>,
           USP |-> <<254, 216, 1>>]

COLOR_TOLERANCE == 25

\* color_distance is sum((a - b) ** 2) ** 0.5; this is the sum under the root.
\* zip() pairs the first three channels.
color_distance_sq(c1, c2) ==
    (c1[1] - c2[1]) * (c1[1] - c2[1])
  + (c1[2] - c2[2]) * (c1[2] - c2[2])
  + (c1[3] - c2[3]) * (c1[3] - c2[3])

\* matches_color of find_connected_components: an RGBA pixel loses its alpha,
\* then color_distance(pixel, target) < tolerance.  The root of a sum of
\* integer squares is below the integer tolerance exactly when the sum is
\* below its square (binary64 sqrt is monotone and exact on 625).
matches_color(pixel, target, tolerance) ==
    LET rgb == IF Len(pixel) = 4 THEN SubSeq(pixel, 1, 3) ELSE pixel
    IN  color_distance_sq(rgb, target) < tolerance * tolerance

(***************************************************************************)
(* find_connected_components (lines 58-118).                               *)
(***************************************************************************)
Coords(w, h) == (0 .. w - 1) \X (0 .. h - 1)

\* A mutant of out_of_extent: the upper limits off by one.
out_of_extent_off_by_one(x, y, w, h) == x < 0 \/ x > w \/ y < 0 \/ y > h

\* Line 87: the coordinate lies outside the image.
out_of_extent(x, y, w, h) == x < 0 \/ x >= w \/ y < 0 \/ y >= h

\* pixels[x, y].  The code only ever looks up coordinates of the image; for
\* any other coordinate the lookup yields a color that matches no class, so
\* that the history of lookups stays defined.
pixel_at(im, x, y) ==
    IF <<x, y>> \in DOMAIN im THEN im[<<x, y>>] ELSE <<1000, 1000, 1000>>

\* A mutant of neighbors: the diagonal neighbors are added as well.
neighbors_8(x, y) ==
    << <<x + 1, y>>, <<x - 1, y>>, <<x, y + 1>>, <<x, y - 1>>,
       <<x + 1, y + 1>>, <<x - 1, y - 1>>, <<x + 1, y - 1>>, <<x - 1, y + 1>> >>

\* Lines 95-99: the four neighbors, in the order they are appended.
neighbors(x, y) ==
    << <<x + 1, y>>, <<x - 1, y>>, <<x, y + 1>>, <<x, y - 1>> >>

\* A mutant of fill_iteration: visited.add is left out.
fill_iteration_no_mark(im, w, h, target, q, vis, comp) ==
    LET p    == Head(q)
        rest == Tail(q)
        skip == [queue |-> rest, visited |-> vis, component_pixels |-> comp,
                 read |-> {}, appended |-> 0]
    IN  IF p \in vis THEN skip
        ELSE IF out_of_extent(p[1], p[2], w, h) THEN skip
        ELSE IF ~matches_color(pixel_at(im, p[1], p[2]), target, COLOR_TOLERANCE)
             THEN [skip EXCEPT !.read = {p}]
        ELSE [queue            |-> rest \o neighbors(p[1], p[2]),
              visited          |-> vis,
              component_pixels |-> Append(comp, p),
              read             |-> {p},
              appended         |-> Len(neighbors(p[1], p[2]))]

\* Lines 84-99: one iteration of flood_fill's while loop on a non-empty
\* queue.  read is the coordinate looked up in pixels (if any), appended the
\* number of queue.append calls.
fill_iteration(im, w, h, target, q, vis, comp) ==
    LET p    == Head(q)
        rest == Tail(q)
        skip == [queue |-> rest, visited |-> vis, component_pixels |-> comp,
                 read |-> {}, appended |-> 0]
    IN  IF p \in vis THEN skip
        ELSE IF out_of_extent(p[1], p[2], w, h) THEN skip
        ELSE IF ~matches_color(pixel_at(im, p[1], p[2]), target, COLOR_TOLERANCE)
             THEN [skip EXCEPT !.read = {p}]
        ELSE [queue            |-> rest \o neighbors(p[1], p[2]),
              visited          |-> vis \cup {p},
              component_pixels |-> Append(comp, p),
              read             |-> {p},
              appended         |-> Len(neighbors(p[1], p[2]))]

RECURSIVE SumSeq(_, _)
SumSeq(s, k) == IF s = <<>> THEN 0 ELSE Head(s)[k] + SumSeq(Tail(s), k)

\* Lines 101-107: the triple flood_fill returns.  center_x = sum_x / area and
\* center_y = sum_y / area are kept as the exact fractions.
component_of(comp) ==
    [sum_x |-> SumSeq(comp, 1), sum_y |-> SumSeq(comp, 2), area |-> Len(comp)]

\* Lines 83-108: the while loop run to the end, and what flood_fill leaves.
RECURSIVE fill_loop(_, _, _, _, _, _, _)
fill_loop(im, w, h, target, q, vis, comp) ==
    IF q = <<>>
    THEN [visited |-> vis, component_pixels |-> comp]
    ELSE LET s == fill_iteration(im, w, h, target, q, vis, comp)
         IN  fill_loop(im, w, h, target, s.queue, s.visited, s.component_pixels)

\* Lines 111-118: the raster scan from position i on.
RECURSIVE scan_from(_, _, _, _, _, _, _)
scan_from(im, w, h, target, i, vis, comps) ==
    IF i >= w * h THEN comps
    ELSE LET x == i % w
             y == i \div w
         IN  IF <<x, y>> \in vis
                \/ ~matches_color(pixel_at(im, x, y), target, COLOR_TOLERANCE)
             THEN scan_from(im, w, h, target, i + 1, vis, comps)
             ELSE LET f == fill_loop(im, w, h, target, << <<x, y>> >>, vis, <<>>)
                  IN  scan_from(im, w, h, target, i + 1, f.visited,
                                IF f.component_pixels = <<>> THEN comps
                                ELSE Append(comps, component_of(f.component_pixels)))

\* find_connected_components(img, target_color) as one call.
find_connected_components(im, w, h, target) ==
    scan_from(im, w, h, target, 0, {}, <<>>)

(***************************************************************************)
(* Values of the variables a state machine does not use.                   *)
(***************************************************************************)
NoFile == [state |-> "absent", content |-> "none"]

EmptyCells == [t \in {CellTypes[i] : i \in 1 .. Len(CellTypes)} |-> <<>>]

FillIdle ==
    /\ target_color = <<>> /\ visited = {} /\ components = <<>>
    /\ queue = <<>> /\ component_pixels = <<>> /\ scan = 0
    /\ reads = {} /\ enqueued = 0

ImgIdle == img = <<>> /\ width = 0 /\ height = 0

NormIdle ==
    cells = EmptyCells /\ normalized_cells = <<>> /\ renormalized_cells = <<>>

PipeIdle ==
    /\ cell_size = 0 /\ min_area = 0 /\ class_i = 0 /\ total = 0
    /\ grid_width = 0 /\ grid_height = 0 /\ positions_by_type = <<>>
    /\ ts_output = <<>> /\ json_file = NoFile /\ ts_file = NoFile
    /\ error = "none"

(***************************************************************************)
(* FillSpec: find_connected_components step by step.                       *)
(***************************************************************************)
\* Pixels at distance 24 (matching) and 25 (not matching) from the AZ red.
FillPalette == {<<222, 26, 27>>, <<222, 26, 28>>}

FillTargets == {COLORS.AZ, COLORS.TK}

FillInit ==
    /\ pc = "scan"
    /\ \E w \in 1 .. MaxFillPixels, h \in 1 .. MaxFillPixels :
         /\ w * h <= MaxFillPixels
         /\ width = w
         /\ height = h
         /\ img \in [Coords(w, h) -> FillPalette]
    /\ target_color \in FillTargets
    /\ visited = {} /\ components = <<>>
    /\ queue = <<>> /\ component_pixels = <<>> /\ scan = 0
    /\ reads = {} /\ enqueued = 0
    /\ NormIdle /\ PipeIdle

ScanX == scan % width
ScanY == scan \div width

\* Lines 111-113, 75: the scan passes a pixel that is already visited.
ScanSkip ==
    /\ pc = "scan" /\ scan < width * height
    /\ <<ScanX, ScanY>> \in visited
    /\ scan' = scan + 1
    /\ UNCHANGED <<pc, imgVars, target_color, visited, components, queue,
                   component_pixels, reads, enqueued, normVars, pipeVars>>

\* Lines 114, 77-78: flood_fill returns None, the start pixel does not match.
FillRejected ==
    /\ pc = "scan" /\ scan < width * height
    /\ <<ScanX, ScanY>> \notin visited
    /\ ~matches_color(pixel_at(img, ScanX, ScanY), target_color, COLOR_TOLERANCE)
    /\ reads' = reads \cup {<<ScanX, ScanY>>}
    /\ scan' = scan + 1
    /\ UNCHANGED <<pc, imgVars, target_color, visited, components, queue,
                   component_pixels, enqueued, normVars, pipeVars>>

\* Lines 114, 77-81: flood_fill starts a fill at an unvisited matching pixel.
FillStart ==
    /\ pc = "scan" /\ scan < width * height
    /\ <<ScanX, ScanY>> \notin visited
    /\ matches_color(pixel_at(img, ScanX, ScanY), target_color, COLOR_TOLERANCE)
    /\ reads' = reads \cup {<<ScanX, ScanY>>}
    /\ queue' = << <<ScanX, ScanY>> >>
    /\ component_pixels' = <<>>
    /\ enqueued' = 1
    /\ pc' = "fill"
    /\ UNCHANGED <<imgVars, target_color, visited, components, scan,
                   normVars, pipeVars>>

\* Lines 83-99: one iteration of the while loop.
FillIteration ==
    /\ pc = "fill" /\ queue # <<>>
    /\ LET s == fill_iteration(img, width, height, target_color,
                               queue, visited, component_pixels)
       IN  /\ queue' = s.queue
           /\ visited' = s.visited
           /\ component_pixels' = s.component_pixels
           /\ reads' = reads \cup s.read
           /\ enqueued' = enqueued + s.appended
    /\ UNCHANGED <<pc, imgVars, target_color, components, scan,
                   normVars, pipeVars>>

\* Lines 83, 101-108, 115-116: the queue is empty, flood_fill returns and the
\* scan keeps the component.
FillReturn ==
    /\ pc = "fill" /\ queue = <<>>
    /\ components' = IF component_pixels # <<>>
                     THEN Append(components, component_of(component_pixels))
                     ELSE components
    /\ component_pixels' = <<>>
    /\ enqueued' = 0
    /\ scan' = scan + 1
    /\ pc' = "scan"
    /\ UNCHANGED <<imgVars, target_color, visited, queue, reads,
                   normVars, pipeVars>>

\* Line 118: the scan is over, find_connected_components returns.
ScanReturn ==
    /\ pc = "scan" /\ scan = width * height
    /\ pc' = "done"
    /\ UNCHANGED <<imgVars, fillVars, normVars, pipeVars>>

FillNext ==
    \/ ScanSkip
    \/ FillRejected
    \/ FillStart
    \/ FillIteration
    \/ FillReturn
    \/ ScanReturn

FillSpec == FillInit /\ [][FillNext]_vars

\* The interpreter runs the single thread to the end of the function.
FairFillSpec == FillSpec /\ WF_vars(FillNext)

(***************************************************************************)
(* What find_connected_components is to compute, stated without the fill:  *)
(* the maximal 4-connected regions of the matching pixels.                 *)
(***************************************************************************)
Matching(im, w, h, target) ==
    {p \in Coords(w, h) : matches_color(im[p], target, COLOR_TOLERANCE)}

Abs(n) == IF n < 0 THEN -n ELSE n

DiagonalOnly(p, q) == Abs(p[1] - q[1]) = 1 /\ Abs(p[2] - q[2]) = 1

Around(p) ==
    {<<p[1] + 1, p[2]>>, <<p[1] - 1, p[2]>>, <<p[1], p[2] + 1>>, <<p[1], p[2] - 1>>}

\* The pixels of M joined to S by a chain of 4-adjacent pixels of M.
RECURSIVE Region(_, _)
Region(S, M) ==
    LET N == M \cap UNION {Around(p) : p \in S}
    IN  IF N \subseteq S THEN S ELSE Region(S \cup N, M)

RECURSIVE RegionsOf(_)
RegionsOf(M) ==
    IF M = {} THEN {}
    ELSE LET p == CHOOSE p \in M : TRUE
             R == Region({p}, M)
         IN  {R} \cup RegionsOf(M \ R)

Blobs(im, w, h, target) == RegionsOf(Matching(im, w, h, target))

Raster(p, w) == p[2] * w + p[1]

FirstRaster(B, w) ==
    LET R == {Raster(p, w) : p \in B}
    IN  CHOOSE r \in R : \A t \in R : r <= t

\* The position of region B in the order the raster scan meets the regions.
ScanRank(B, BS, w) ==
    1 + Cardinality({C \in BS : FirstRaster(C, w) < FirstRaster(B, w)})

RECURSIVE SumSet(_, _)
SumSet(S, k) ==
    IF S = {} THEN 0
    ELSE LET p == CHOOSE p \in S : TRUE IN p[k] + SumSet(S \ {p}, k)

Summary(B) ==
    [sum_x |-> SumSet(B, 1), sum_y |-> SumSet(B, 2), area |-> Cardinality(B)]

RECURSIVE SumAreas(_)
SumAreas(cs) == IF cs = <<>> THEN 0 ELSE Head(cs).area + SumAreas(Tail(cs))

SeqToSet(s) == {s[i] : i \in 1 .. Len(s)}

NoDuplicates(s) == \A i, j \in 1 .. Len(s) : s[i] = s[j] => i = j

\* C3: find_connected_components returns exactly one (centroid, area) triple
\* per maximal 4-connected region of matching pixels.  While it runs, only
\* matching pixels are counted and no component has area 0; at the return
\* the components are the regions in scan order, each with the region's
\* coordinate sums and pixel count, and the areas sum to the number of
\* matching pixels (so regions touching only diagonally stay separate).
C3_OneTriplePerRegion ==
    pc \in {"scan", "fill", "done"} =>
    /\ \A p \in visited : matches_color(img[p], target_color, COLOR_TOLERANCE)
    /\ \A i \in 1 .. Len(components) : components[i].area >= 1
    /\ pc = "done" =>
         LET M  == Matching(img, width, height, target_color)
             BS == Blobs(img, width, height, target_color)
         IN  /\ Len(components) = Cardinality(BS)
             /\ \A B \in BS : components[ScanRank(B, BS, width)] = Summary(B)
             /\ SumAreas(components) = Cardinality(M)
             /\ visited = M

\* Witness of C3: the scan has returned on an image with two matching pixels
\* that touch only at a corner, reported as two unit-area blobs.
C3_Witness ==
    /\ pc = "done"
    /\ \E p, q \in Matching(img, width, height, target_color) :
         /\ DiagonalOnly(p, q)
         /\ {p} \in Blobs(img, width, height, target_color)
         /\ {q} \in Blobs(img, width, height, target_color)
         /\ \E i, j \in 1 .. Len(components) :
              /\ i # j
              /\ components[i] = [sum_x |-> p[1], sum_y |-> p[2], area |-> 1]
              /\ components[j] = [sum_x |-> q[1], sum_y |-> q[2], area |-> 1]

\* C9: during the flood fill no pixel is read outside 0 <= x < width,
\* 0 <= y < height, and no coordinate outside the image is added to the
\* visited set or counted in a blob.
C9_NoReadOutsideImage ==
    pc \in {"scan", "fill", "done"} =>
    /\ reads \subseteq Coords(width, height)
    /\ visited \subseteq Coords(width, height)
    /\ SeqToSet(component_pixels) \subseteq Coords(width, height)
    /\ SumAreas(components) + Len(component_pixels) = Cardinality(visited)

\* Witness of C9: a fill has dequeued and discarded a coordinate outside the
\* image: its queue is empty again and its blob holds a pixel of each border.
C9_Witness ==
    /\ pc = "fill" /\ queue = <<>>
    /\ \E p \in SeqToSet(component_pixels) : p[1] = 0
    /\ \E p \in SeqToSet(component_pixels) : p[2] = 0
    /\ \E p \in SeqToSet(component_pixels) : p[1] = width - 1
    /\ \E p \in SeqToSet(component_pixels) : p[2] = height - 1
    /\ enqueued = 1 + 4 * Len(component_pixels)

\* C10: every flood fill ends with an empty queue and the raster scan ends.
\* A pixel is added to the visited set at most once (no pixel is counted
\* twice), so a fill appends at most 4 coordinates per pixel of its blob.
C10_FillAndScanTerminate ==
    /\ <>(pc = "done")
    /\ [](pc = "done" => queue = <<>> /\ scan = width * height)
    /\ [](/\ NoDuplicates(component_pixels)
          /\ Len(component_pixels) <= width * height
          /\ enqueued <= 1 + 4 * Len(component_pixels)
          /\ Len(queue) <= enqueued)
    /\ [][(pc = "fill" /\ pc' # "fill") => queue = <<>>]_vars
    /\ [][visited' # visited =>
            /\ Cardinality(visited') = Cardinality(visited) + 1
            /\ visited \subseteq visited']_vars

\* Witness of C10: the scan has returned after a fill of more than one pixel.
C10_Witness ==
    /\ pc = "done"
    /\ \E i \in 1 .. Len(components) : components[i].area >= 2

(***************************************************************************)
(* normalize_coordinates (lines 121-165).                                  *)
(***************************************************************************)
TypeSet == {CellTypes[i] : i \in 1 .. Len(CellTypes)}

\* Lines 128-134: the grid values occupied by the cells of all classes.
all_x(cs) == UNION {{cs[t][i].grid_x : i \in 1 .. Len(cs[t])} : t \in TypeSet}

all_y(cs) == UNION {{cs[t][i].grid_y : i \in 1 .. Len(cs[t])} : t \in TypeSet}

\* A mutant of sorted: descending order.
RECURSIVE sorted_descending(_)
sorted_descending(S) ==
    IF S = {} THEN <<>>
    ELSE LET m == CHOOSE m \in S : \A v \in S : m >= v
         IN  <<m>> \o sorted_descending(S \ {m})

\* Lines 137-138: sorted(all_x), the values in ascending order.
RECURSIVE sorted(_)
sorted(S) ==
    IF S = {} THEN <<>>
    ELSE LET m == CHOOSE m \in S : \A v \in S : m <= v
         IN  <<m>> \o sorted(S \ {m})

\* A mutant of coordinate_map: the positions counted from 1.
coordinate_map_from_one(srt) ==
    [old \in {srt[i] : i \in 1 .. Len(srt)} |->
        CHOOSE i \in 1 .. Len(srt) : srt[i] = old]

\* Lines 141-142: {old: new for new, old in enumerate(sorted_x)}.
coordinate_map(srt) ==
    [old \in {srt[i] : i \in 1 .. Len(srt)} |->
        (CHOOSE i \in 1 .. Len(srt) : srt[i] = old) - 1]

\* Lines 145-146: min() and max() of an empty list raise ValueError.
normalize_raises(cs) == sorted(all_x(cs)) = <<>> \/ sorted(all_y(cs)) = <<>>

\* A mutant of normalized_cell: the cell's fields taken from the wrong places.
normalized_cell_mixed(cell, x_map, y_map) ==
    [grid_x          |-> x_map[cell.grid_x],
     grid_y          |-> y_map[cell.grid_y],
     original_grid_x |-> x_map[cell.grid_x],
     original_grid_y |-> y_map[cell.grid_y],
     pixel_x         |-> cell.pixel_x,
     pixel_y         |-> cell.pixel_y,
     area            |-> cell.area]

\* Lines 155-163: the record appended for one cell.
normalized_cell(cell, x_map, y_map) ==
    [grid_x          |-> x_map[cell.grid_x],
     grid_y          |-> y_map[cell.grid_y],
     original_grid_x |-> cell.grid_x,
     original_grid_y |-> cell.grid_y,
     pixel_x         |-> cell.pixel_x,
     pixel_y         |-> cell.pixel_y,
     area            |-> cell.area]

\* Lines 127-165: the dict normalize_coordinates returns when it does not
\* raise: the same classes in the same order, one new record per cell.
normalize_coordinates(cs) ==
    LET x_map == coordinate_map(sorted(all_x(cs)))
        y_map == coordinate_map(sorted(all_y(cs)))
    IN  [t \in TypeSet |->
            [i \in 1 .. Len(cs[t]) |-> normalized_cell(cs[t][i], x_map, y_map)]]

(***************************************************************************)
(* NormSpec: normalize_coordinates on a cell collection, then on its own   *)
(* result.                                                                 *)
(***************************************************************************)
DefaultCellSize == 26
DefaultMinArea == 100

\* Lines 207-218: the record the detection loop appends for a blob whose
\* centroid is the middle of grid cell (gx, gy).
RawCell(gx, gy) ==
    [grid_x  |-> gx,
     grid_y  |-> gy,
     pixel_x |-> gx * DefaultCellSize + DefaultCellSize \div 2,
     pixel_y |-> gy * DefaultCellSize + DefaultCellSize \div 2,
     area    |-> DefaultMinArea + gx + 2 * gy]

RawCells == {RawCell(gx, gy) : gx \in 0 .. MaxGridX, gy \in 0 .. MaxGridY}

\* The AZ and USP lists are filled; the lists of the other classes are empty.
NormInit ==
    /\ pc = "cells"
    /\ \E n \in 0 .. MaxCells :
         \E k \in 0 .. n :
           \E a \in [1 .. k -> RawCells], b \in [1 .. n - k -> RawCells] :
             cells = [t \in TypeSet |->
                        IF t = "AZ" THEN a ELSE IF t = "USP" THEN b ELSE <<>>]
    /\ normalized_cells = <<>>
    /\ renormalized_cells = <<>>
    /\ ImgIdle /\ FillIdle /\ PipeIdle

\* Line 230: normalize_coordinates returns.
Normalize ==
    /\ pc = "cells"
    /\ ~normalize_raises(cells)
    /\ normalized_cells' = normalize_coordinates(cells)
    /\ pc' = "normalized"
    /\ UNCHANGED <<imgVars, fillVars, cells, renormalized_cells, pipeVars>>

\* Lines 145-146: normalize_coordinates raises on a collection with no cell.
NormalizeRaises ==
    /\ pc = "cells"
    /\ normalize_raises(cells)
    /\ error' = "ValueError"
    /\ pc' = "raised"
    /\ UNCHANGED <<imgVars, fillVars, normVars, cell_size, min_area, class_i,
                   total, grid_width, grid_height, positions_by_type, ts_output,
                   json_file, ts_file>>

\* normalize_coordinates applied to the collection it returned.
Renormalize ==
    /\ pc = "normalized"
    /\ ~normalize_raises(normalized_cells)
    /\ renormalized_cells' = normalize_coordinates(normalized_cells)
    /\ pc' = "renormalized"
    /\ UNCHANGED <<imgVars, fillVars, cells, normalized_cells, pipeVars>>

NormNext ==
    \/ Normalize
    \/ NormalizeRaises
    \/ Renormalize

NormSpec == NormInit /\ [][NormNext]_vars

\* The cells of a collection, each named by its class and its position.
CellIndex(cs) == UNION {{<<t, i>> : i \in 1 .. Len(cs[t])} : t \in TypeSet}

At(cs, k) == cs[k[1]][k[2]]

RawXs(cs) == {At(cs, k).grid_x : k \in CellIndex(cs)}
RawYs(cs) == {At(cs, k).grid_y : k \in CellIndex(cs)}

Dense(cs) ==
    /\ RawXs(cs) = 0 .. Cardinality(RawXs(cs)) - 1
    /\ RawYs(cs) = 0 .. Cardinality(RawYs(cs)) - 1

\* C2: for a non-empty collection normalize_coordinates maps, on each axis,
\* the distinct raw grid values of the cells of all classes onto exactly
\* 0 .. n-1, and for any two cells raw a < raw b iff normalized a <
\* normalized b, raw a = raw b iff normalized a = normalized b.
C2_OrderPreservingBijection ==
    pc \in {"normalized", "renormalized"} =>
    LET K == CellIndex(cells) IN
    /\ CellIndex(normalized_cells) = K
    /\ RawXs(normalized_cells) = 0 .. Cardinality(RawXs(cells)) - 1
    /\ RawYs(normalized_cells) = 0 .. Cardinality(RawYs(cells)) - 1
    /\ \A a, b \in K :
         /\ At(cells, a).grid_x < At(cells, b).grid_x
              <=> At(normalized_cells, a).grid_x < At(normalized_cells, b).grid_x
         /\ At(cells, a).grid_x = At(cells, b).grid_x
              <=> At(normalized_cells, a).grid_x = At(normalized_cells, b).grid_x
         /\ At(cells, a).grid_y < At(cells, b).grid_y
              <=> At(normalized_cells, a).grid_y < At(normalized_cells, b).grid_y
         /\ At(cells, a).grid_y = At(cells, b).grid_y
              <=> At(normalized_cells, a).grid_y = At(normalized_cells, b).grid_y

\* Witness of C2: a collection normalized whose raw X values, spread over two
\* classes, are three values with a gap, and have become 0, 1, 2.
C2_Witness ==
    /\ pc = "normalized"
    /\ RawXs(cells) = {0, 2, 3}
    /\ RawYs(cells) = {1}
    /\ cells["AZ"] # <<>> /\ cells["USP"] # <<>>
    /\ RawXs(normalized_cells) = {0, 1, 2}
    /\ RawYs(normalized_cells) = {0}

\* C6: on a collection whose occupied grid values are exactly 0 .. n-1 on
\* each axis normalize_coordinates leaves every grid_x and grid_y as it is;
\* applied to its own result it leaves every grid_x and grid_y as it is.
C6_IdentityOnDense ==
    /\ (pc \in {"normalized", "renormalized"} /\ Dense(cells)) =>
         \A k \in CellIndex(cells) :
           /\ At(normalized_cells, k).grid_x = At(cells, k).grid_x
           /\ At(normalized_cells, k).grid_y = At(cells, k).grid_y
    /\ pc = "renormalized" =>
         /\ CellIndex(renormalized_cells) = CellIndex(normalized_cells)
         /\ \A k \in CellIndex(normalized_cells) :
              /\ At(renormalized_cells, k).grid_x = At(normalized_cells, k).grid_x
              /\ At(renormalized_cells, k).grid_y = At(normalized_cells, k).grid_y

\* Witness of C6: a collection with gaps on both axes normalized twice: the
\* first pass moved a cell, the second moved none.
C6_Witness ==
    /\ pc = "renormalized"
    /\ ~Dense(cells)
    /\ \E k \in CellIndex(cells) :
         /\ At(normalized_cells, k).grid_x # At(cells, k).grid_x
         /\ At(normalized_cells, k).grid_y # At(cells, k).grid_y
         /\ At(renormalized_cells, k).grid_x = At(normalized_cells, k).grid_x

\* C7: normalize_coordinates changes nothing but the grid coordinates: the
\* input collection is left as it was, every class keeps its number of cells
\* in the same order, and each returned cell carries the input cell's raw
\* grid_x, grid_y as original_grid_x, original_grid_y and its pixel_x,
\* pixel_y and area unchanged.
C7_OnlyGridChanges ==
    /\ [][cells' = cells]_vars
    /\ [](pc \in {"normalized", "renormalized"} =>
           /\ DOMAIN normalized_cells = DOMAIN cells
           /\ \A t \in DOMAIN cells :
                /\ Len(normalized_cells[t]) = Len(cells[t])
                /\ \A i \in 1 .. Len(cells[t]) :
                     /\ normalized_cells[t][i].original_grid_x = cells[t][i].grid_x
                     /\ normalized_cells[t][i].original_grid_y = cells[t][i].grid_y
                     /\ normalized_cells[t][i].pixel_x = cells[t][i].pixel_x
                     /\ normalized_cells[t][i].pixel_y = cells[t][i].pixel_y
                     /\ normalized_cells[t][i].area = cells[t][i].area)

\* Witness of C7: a class with two different cells normalized, the first of
\* them moved on the grid and its raw coordinate kept beside the new one.
C7_Witness ==
    /\ pc = "normalized"
    /\ Len(cells["AZ"]) = 2
    /\ cells["AZ"][1] # cells["AZ"][2]
    /\ normalized_cells["AZ"][1].grid_x # cells["AZ"][1].grid_x
    /\ normalized_cells["AZ"][1].original_grid_x = cells["AZ"][1].grid_x
    /\ normalized_cells["AZ"][1].area = cells["AZ"][1].area

(***************************************************************************)
(* parse_scheme (lines 168-287) and generate_typescript (lines 289-322).   *)
(* main (line 335) passes image_path, cell_size and min_area and leaves    *)
(* output_path at None, so output_path is the image path with the suffix   *)
(* .json and ts_path the same path with the suffix .ts: two files.         *)
(***************************************************************************)
\* int(): truncation toward zero of the quotient a / b.
int_div(a, b) ==
    IF (a >= 0) = (b > 0) THEN Abs(a) \div Abs(b) ELSE -(Abs(a) \div Abs(b))

\* A mutant of grid_coordinate: the quotient rounded to the nearest integer.
grid_coordinate_rounded(sum, area, pitch) ==
    int_div(2 * sum + area * pitch, 2 * area * pitch)

\* Lines 209-210: int(center / cell_size) with center = sum / area.  The
\* code divides in binary64; the exact quotient truncates to the same
\* integer for every image whose coordinate sums stay below 2^53.
grid_coordinate(sum, area, pitch) == int_div(sum, area * pitch)

\* A mutant of passes_area_filter: the limit taken as exclusive.
passes_area_filter_exclusive(area, limit) == area > limit

\* Line 208: if area >= min_area.
passes_area_filter(area, limit) == area >= limit

\* Lines 212-218: the cell appended for one component.
raw_cell(c, pitch) ==
    [grid_x  |-> grid_coordinate(c.sum_x, c.area, pitch),
     grid_y  |-> grid_coordinate(c.sum_y, c.area, pitch),
     pixel_x |-> int_div(c.sum_x, c.area),
     pixel_y |-> int_div(c.sum_y, c.area),
     area    |-> c.area]

\* Lines 207-218: the cells of one class, from its components in order.
detected_cells(comps, pitch, limit) ==
    LET keep(c) == passes_area_filter(c.area, limit)
        kept    == SelectSeq(comps, keep)
    IN  [i \in 1 .. Len(kept) |-> raw_cell(kept[i], pitch)]

RECURSIVE total_cells(_, _)
\* Lines 234-238: the count of the cells of the first n classes.
total_cells(cs, n) ==
    IF n = 0 THEN 0 ELSE Len(cs[CellTypes[n]]) + total_cells(cs, n - 1)

\* Lines 249-250: max(all) - min(all) + 1 if all else 0.
grid_extent(all) ==
    IF all = {} THEN 0
    ELSE LET srt == sorted(all) IN srt[Len(srt)] - srt[1] + 1

\* Lines 266-269: the "x,y" strings of a class, kept as pairs.
positions_of(cs) ==
    [t \in TypeSet |->
        [i \in 1 .. Len(cs[t]) |-> <<cs[t][i].grid_x, cs[t][i].grid_y>>]]

\* Lines 302-319: the set literal of one class: its rows ascending, in each
\* row the distinct columns ascending.
typescript_block(t, positions) ==
    LET rows == sorted({positions[i].grid_y : i \in 1 .. Len(positions)})
    IN  [name  |-> t,
         count |-> Len(positions),
         rows  |-> [k \in 1 .. Len(rows) |->
                      [row  |-> rows[k],
                       cols |-> sorted({positions[i].grid_x :
                                          i \in {j \in 1 .. Len(positions) :
                                                   positions[j].grid_y = rows[k]}})]]]

\* Lines 289-322: one block per class with cells, in the order of the dict.
generate_typescript(cs) ==
    LET has_cells(t) == cs[t] # <<>>
        named        == SelectSeq(CellTypes, has_cells)
    IN  [k \in 1 .. Len(named) |-> typescript_block(named[k], cs[named[k]])]

Written == [state |-> "closed", content |-> "complete"]

\* The image files the model reads: pixels at distance 24 from the AZ red
\* (matching), at distance 25 from it (matching no class), and of the TK
\* color.
Palette == {<<222, 26, 27>>, <<222, 26, 28>>, COLORS.TK}

Init ==
    /\ pc = "load"
    /\ \E w \in 1 .. MaxPixels, h \in 1 .. MaxPixels :
         /\ w * h <= MaxPixels
         /\ width = w
         /\ height = h
         /\ img \in [Coords(w, h) -> Palette]
    /\ cell_size \in 1 .. MaxParam
    /\ min_area \in 1 .. MaxParam
    /\ class_i = 0 /\ total = 0 /\ grid_width = 0 /\ grid_height = 0
    /\ positions_by_type = <<>> /\ ts_output = <<>>
    /\ json_file = NoFile /\ ts_file = NoFile /\ error = "none"
    /\ FillIdle /\ NormIdle

\* Lines 182-199: the image is opened and converted, cells starts empty.
Load ==
    /\ pc = "load"
    /\ pc' = "detect"
    /\ UNCHANGED <<imgVars, fillVars, normVars, pipeVars>>

\* Line 183: Image.open raises, the image cannot be decoded.
LoadFails ==
    /\ pc = "load"
    /\ error' = "DecodeError"
    /\ pc' = "raised"
    /\ UNCHANGED <<imgVars, fillVars, normVars, cell_size, min_area, class_i,
                   total, grid_width, grid_height, positions_by_type, ts_output,
                   json_file, ts_file>>

\* Lines 202-218: one iteration of the loop over COLORS; after the last one
\* (lines 220-230) the cells are handed to normalize_coordinates.
DetectClass ==
    /\ pc = "detect"
    /\ class_i < Len(CellTypes)
    /\ LET t == CellTypes[class_i + 1]
       IN  cells' = [cells EXCEPT ![t] =
                        detected_cells(
                            find_connected_components(img, width, height, COLORS[t]),
                            cell_size, min_area)]
    /\ class_i' = class_i + 1
    /\ pc' = IF class_i + 1 = Len(CellTypes) THEN "cells" ELSE "detect"
    /\ UNCHANGED <<imgVars, fillVars, normalized_cells, renormalized_cells,
                   cell_size, min_area, total, grid_width, grid_height,
                   positions_by_type, ts_output, json_file, ts_file, error>>

\* Lines 232-269: the counts, the grid size and the simple coordinate lists.
PrepareOutput ==
    /\ pc = "normalized"
    /\ class_i = Len(CellTypes)
    /\ total' = total_cells(normalized_cells, Len(CellTypes))
    /\ grid_width' = grid_extent(all_x(normalized_cells))
    /\ grid_height' = grid_extent(all_y(normalized_cells))
    /\ positions_by_type' = positions_of(normalized_cells)
    /\ pc' = "open_json"
    /\ UNCHANGED <<imgVars, fillVars, normVars, cell_size, min_area, class_i,
                   ts_output, json_file, ts_file, error>>

\* An output step that raises OSError: the run ends.
Raise(e) ==
    /\ error' = e
    /\ pc' = "raised"
    /\ UNCHANGED <<imgVars, fillVars, normVars, cell_size, min_area, class_i,
                   total, grid_width, grid_height, positions_by_type, ts_output>>

\* An output step that goes on to the next position.
Step(next) ==
    /\ pc' = next
    /\ UNCHANGED <<imgVars, fillVars, normVars, cell_size, min_area, class_i,
                   total, grid_width, grid_height, positions_by_type, error>>

\* Line 275: open(output_path, 'w') creates or truncates the file.
OpenJson ==
    /\ pc = "open_json"
    /\ json_file' = [state |-> "open", content |-> "empty"]
    /\ UNCHANGED <<ts_file, ts_output>>
    /\ Step("dump_json")

\* Line 275: open raises, the destination is unwritable.
OpenJsonFails ==
    /\ pc = "open_json"
    /\ UNCHANGED <<json_file, ts_file>>
    /\ Raise("OSError")

\* Line 276: json.dump writes the whole output.
DumpJson ==
    /\ pc = "dump_json"
    /\ json_file' = [state |-> "open", content |-> "complete"]
    /\ UNCHANGED <<ts_file, ts_output>>
    /\ Step("close_json")

\* Line 276: a write raises; the with statement closes the file on the way.
DumpJsonFails ==
    /\ pc = "dump_json"
    /\ json_file' = [state |-> "closed", content |-> "partial"]
    /\ UNCHANGED ts_file
    /\ Raise("OSError")

\* Lines 275-278: the with statement ends and closes the file.
CloseJson ==
    /\ pc = "close_json"
    /\ json_file' = [json_file EXCEPT !.state = "closed"]
    /\ UNCHANGED <<ts_file, ts_output>>
    /\ Step("generate_ts")

\* Lines 281-282: the text of the code listing.
GenerateTs ==
    /\ pc = "generate_ts"
    /\ ts_output' = generate_typescript(normalized_cells)
    /\ UNCHANGED <<json_file, ts_file>>
    /\ Step("open_ts")

\* Line 283: open(ts_path, 'w').
OpenTs ==
    /\ pc = "open_ts"
    /\ ts_file' = [state |-> "open", content |-> "empty"]
    /\ UNCHANGED <<json_file, ts_output>>
    /\ Step("write_ts")

\* Line 283: open raises.
OpenTsFails ==
    /\ pc = "open_ts"
    /\ UNCHANGED <<json_file, ts_file>>
    /\ Raise("OSError")

\* Line 284: f.write(ts_output).
WriteTs ==
    /\ pc = "write_ts"
    /\ ts_file' = [state |-> "open", content |-> "complete"]
    /\ UNCHANGED <<json_file, ts_output>>
    /\ Step("close_ts")

\* A mutant of WriteTsFails: the structured data file is removed on the way.
WriteTsFailsWithRollback ==
    /\ pc = "write_ts"
    /\ ts_file' = [state |-> "closed", content |-> "partial"]
    /\ json_file' = NoFile
    /\ Raise("OSError")

\* Line 284: the write raises; the with statement closes the file and the
\* exception leaves parse_scheme.
WriteTsFails ==
    /\ pc = "write_ts"
    /\ ts_file' = [state |-> "closed", content |-> "partial"]
    /\ UNCHANGED json_file
    /\ Raise("OSError")

\* Lines 283-287: the with statement closes the file, parse_scheme returns.
CloseTs ==
    /\ pc = "close_ts"
    /\ ts_file' = [ts_file EXCEPT !.state = "closed"]
    /\ UNCHANGED <<json_file, ts_output>>
    /\ Step("done")

Next ==
    \/ Load
    \/ LoadFails
    \/ DetectClass
    \/ Normalize
    \/ NormalizeRaises
    \/ PrepareOutput
    \/ OpenJson
    \/ OpenJsonFails
    \/ DumpJson
    \/ DumpJsonFails
    \/ CloseJson
    \/ GenerateTs
    \/ OpenTs
    \/ OpenTsFails
    \/ WriteTs
    \/ WriteTsFails
    \/ CloseTs

Spec == Init /\ [][Next]_vars

\* The positions of parse_scheme from which metadata has been computed.
AfterOutput ==
    pc \in {"open_json", "dump_json", "close_json", "generate_ts", "open_ts",
            "write_ts", "close_ts", "done"}
    \/ (pc = "raised" /\ error = "OSError")

\* C1: when no blob of any class passes the area filter, parse_scheme does
\* not raise in its computation and reports grid_size 0 x 0.
C1_EmptyResultReportsZero ==
    (class_i = Len(CellTypes) /\ \A t \in TypeSet : cells[t] = <<>>) =>
    /\ error # "ValueError"
    /\ pc = "done" => (grid_width = 0 /\ grid_height = 0)

\* The regions of class t that pass the area filter.
KeptBlobs(t) ==
    {B \in Blobs(img, width, height, COLORS[t]) : Cardinality(B) >= min_area}

\* C4: a blob becomes a cell if and only if its area is >= min_area: once a
\* class is processed its cells are, in scan order, exactly its regions of
\* area >= min_area, one cell each with the region's area and centroid (so a
\* region of area min_area - 1 gives no cell and one of area min_area gives
\* one); a class not yet processed has no cell.
C4_AreaFilterInclusive ==
    \A n \in 1 .. Len(CellTypes) :
      LET t == CellTypes[n] IN
      IF n > class_i THEN cells[t] = <<>>
      ELSE LET K == KeptBlobs(t) IN
           /\ Len(cells[t]) = Cardinality(K)
           /\ \A i \in 1 .. Len(cells[t]) : cells[t][i].area >= min_area
           /\ \A B \in K :
                LET c == cells[t][ScanRank(B, K, width)] IN
                /\ c.area = Cardinality(B)
                /\ c.pixel_x = SumSet(B, 1) \div Cardinality(B)
                /\ c.pixel_y = SumSet(B, 2) \div Cardinality(B)

\* Witness of C4: the AZ class is processed with min_area 2 on an image with
\* an AZ region of area 1 (no cell) and an AZ region of area 2 (one cell).
C4_Witness ==
    /\ class_i >= 1
    /\ min_area = 2
    /\ \E B \in Blobs(img, width, height, COLORS.AZ) : Cardinality(B) = min_area - 1
    /\ \E B \in Blobs(img, width, height, COLORS.AZ) : Cardinality(B) = min_area
    /\ Cardinality(Blobs(img, width, height, COLORS.AZ)) = 2
    /\ Len(cells["AZ"]) = 1
    /\ cells["AZ"][1].area = 2

\* The pixels matching any reference color.
AnyMatching == UNION {Matching(img, width, height, COLORS[t]) : t \in TypeSet}

\* The image holds one 4-connected block of class t, of area >= min_area,
\* and no other pixel matching a reference color.
SingleBlock(t) ==
    /\ AnyMatching # {}
    /\ Matching(img, width, height, COLORS[t]) = AnyMatching
    /\ Blobs(img, width, height, COLORS[t]) = {AnyMatching}
    /\ Cardinality(AnyMatching) >= min_area

\* C5: on an image whose only matching pixels form one 4-connected block of
\* one class with area >= min_area the pipeline yields exactly one cell of
\* that class, with original grid coordinate (floor(centroid_x / pitch),
\* floor(centroid_y / pitch)) and normalized grid coordinate (0, 0), no cell
\* of the other five classes, total_cells 1 and grid size 1 x 1.
C5_SingleBlockOneCell ==
    AfterOutput =>
    \A t \in TypeSet :
      SingleBlock(t) =>
        LET n  == Cardinality(AnyMatching)
            sx == SumSet(AnyMatching, 1)
            sy == SumSet(AnyMatching, 2)
        IN  /\ normalized_cells[t] =
                 << [grid_x          |-> 0,
                     grid_y          |-> 0,
                     original_grid_x |-> sx \div (n * cell_size),
                     original_grid_y |-> sy \div (n * cell_size),
                     pixel_x         |-> sx \div n,
                     pixel_y         |-> sy \div n,
                     area            |-> n] >>
            /\ \A u \in TypeSet \ {t} : normalized_cells[u] = <<>>
            /\ total = 1
            /\ grid_width = 1 /\ grid_height = 1
            /\ positions_by_type[t] = << <<0, 0>> >>

\* Witness of C5: the run is done on an image with a single AZ block of area
\* min_area = 2 away from the origin: raw grid (1, 0), normalized (0, 0).
C5_Witness ==
    /\ pc = "done"
    /\ SingleBlock("AZ")
    /\ min_area = 2 /\ cell_size = 2
    /\ Len(normalized_cells["AZ"]) = 1
    /\ normalized_cells["AZ"][1].area = 2
    /\ normalized_cells["AZ"][1].original_grid_x = 1
    /\ normalized_cells["AZ"][1].grid_x = 0
    /\ total = 1

\* C8: the structured data file is completely written and closed before the
\* code listing is opened; a failure writing the code listing ends the run
\* with the error, nothing runs after it, and the structured data file
\* stays as written; no output file is opened before detection and
\* normalization are complete.
C8_JsonBeforeTsNoRollback ==
    /\ [](ts_file # NoFile => json_file = Written)
    /\ []((json_file # NoFile \/ ts_file # NoFile) =>
            /\ class_i = Len(CellTypes)
            /\ ~normalize_raises(cells)
            /\ normalized_cells = normalize_coordinates(cells))
    /\ [][(pc = "write_ts" /\ pc' # "close_ts") =>
            /\ pc' = "raised" /\ error' = "OSError"
            /\ json_file = Written /\ json_file' = Written]_vars
    /\ [][json_file = Written => json_file' = Written]_vars
    /\ [][pc # "raised"]_vars

\* Witness of C8: writing the code listing has failed after the structured
\* data file was written: the run has ended with the error, the data file is
\* complete and closed, the listing partial.
C8_Witness ==
    /\ pc = "raised" /\ error = "OSError"
    /\ ts_file = [state |-> "closed", content |-> "partial"]
    /\ json_file = Written
    /\ total >= 1

=============================================================================
